---- MODULE Spec2Model ----
(***************************************************************************)
(* Model of ordmap's Map<K, O, V> (src/src/lib.rs): a HashMap from key to  *)
(* (order, value) coupled with a BTreeMap from order to the HashSet of the *)
(* keys holding that order.                                                *)
(*                                                                         *)
(* A HashMap / BTreeMap is a TLA+ function whose DOMAIN is the set of keys *)
(* stored; a HashSet is a set; Option is a sequence of length 0 (None) or  *)
(* 1 (Some); a Rust tuple is a TLA+ tuple; a Vec is a sequence.  A panic   *)
(* (failed assert! / unwrap) sets the flag panicked and ends the program.  *)
(***************************************************************************)
EXTENDS Integers, Sequences, FiniteSets, TLC

\* Bounds of the model: keys are 1..MaxKey, orders are 1..MaxOrder.
MaxKey == 3
MaxOrder == 3

Keys == 1..MaxKey
Orders == 1..MaxOrder
\* V is an opaque payload; two distinct payloads tell an old value from a new one.
Values == {"a", "b"}

VARIABLES
    values,        \* Map.values: key -> <<order, value>>
    ordered_keys,  \* Map.ordered_keys: order -> set of keys
    panicked,      \* TRUE once an assert!/unwrap of the code has failed
    last,          \* history: the last public call, its arguments, its result
                   \* and the two indexes as they were right before it
    phase,         \* where a scenario's caller is: "free" (any call may come),
                   \* "tripped" (round trip made), "draining", "drained",
                   \* "peeked" (peek_smallest then remove_smallest made)
    drain_start,   \* the primary index when the drain loop started
    drain_log,     \* the Some results the drain loop has received so far
    peeked,        \* history: what the peek_smallest of the peek-then-remove
                   \* scenario returned
    removed_keys,  \* history: the keys for which remove has returned Some with
                   \* no add of that key since
    again,         \* history: the last call was remove(k) with k in removed_keys
    smallest_orders, \* history: the orders of the Some results of remove_smallest
                   \* since the last add
    abstract       \* the abstract map key -> <<order, value>> run side by side,
                   \* with the result of its last operation

drain_vars == <<phase, drain_start, drain_log>>
history_vars == <<peeked, removed_keys, again, smallest_orders>>
scenario_vars == <<drain_vars, history_vars>>
vars == <<values, ordered_keys, panicked, last, scenario_vars, abstract>>

(***************************************************************************)
(* Option, HashMap, BTreeMap and HashSet primitives of the standard        *)
(* library, as the code uses them.                                         *)
(***************************************************************************)
None == <<>>
Some(x) == <<x>>

EmptyMap == <<>>

\* HashMap::remove / BTreeMap::remove: the map without the key.
MapRemove(f, k) == [x \in (DOMAIN f) \ {k} |-> f[x]]

\* HashMap::insert / BTreeMap entry().or_insert_with(): the map with k bound to v.
MapInsert(f, k, v) == [x \in (DOMAIN f) \cup {k} |-> IF x = k THEN v ELSE f[x]]

\* The smallest and the largest order of a non-empty set of orders (O: Ord).
MinOrder(S) == CHOOSE x \in S : \A y \in S : x <= y
MaxOrderOf(S) == CHOOSE x \in S : \A y \in S : x >= y

\* The orders in which iterating a HashSet can yield its elements: every
\* enumeration without repetition (the iteration order is unspecified).
HashSetIter(S) ==
    {s \in [1..Cardinality(S) -> S] : \A i, j \in 1..Cardinality(S) : i # j => s[i] # s[j]}

\* The result of an operation: the two indexes after it, whether it panicked,
\* and what it returned.
Result(vals, oks, ret) ==
    [values |-> vals, ordered_keys |-> oks, panicked |-> FALSE, ret |-> ret]
Panic(vals, oks) ==
    [values |-> vals, ordered_keys |-> oks, panicked |-> TRUE, ret |-> None]

(***************************************************************************)
(* BTreeMap::first_key_value and BTreeMap::pop_first: the entry with the   *)
(* smallest order, if any; pop_first also takes it out of the map.         *)
(***************************************************************************)
last_key_value(bt) ==
    IF DOMAIN bt = {} THEN None
    ELSE LET o == MaxOrderOf(DOMAIN bt) IN Some(<<o, bt[o]>>)

first_key_value(bt) ==
    IF DOMAIN bt = {} THEN None
    ELSE LET o == MinOrder(DOMAIN bt) IN Some(<<o, bt[o]>>)

pop_last(bt) ==
    IF DOMAIN bt = {} THEN [popped |-> None, rest |-> bt]
    ELSE LET o == MaxOrderOf(DOMAIN bt)
         IN [popped |-> Some(<<o, bt[o]>>), rest |-> MapRemove(bt, o)]

pop_first(bt) ==
    IF DOMAIN bt = {} THEN [popped |-> None, rest |-> bt]
    ELSE LET o == MinOrder(DOMAIN bt)
         IN [popped |-> Some(<<o, bt[o]>>), rest |-> MapRemove(bt, o)]

(***************************************************************************)
(* fn remove_ordered_key(&mut self, order, key)                            *)
(***************************************************************************)
\* Mutant: the emptied group is left in the secondary index.
remove_ordered_key_keep_empty(oks, order, key) ==
    IF order \notin DOMAIN oks
    THEN [ordered_keys |-> oks, panicked |-> TRUE]
    ELSE [ordered_keys |-> MapInsert(oks, order, oks[order] \ {key}),
          panicked |-> key \notin oks[order]]

\* Mutant: the group is deleted whether or not it became empty.
remove_ordered_key_drop_group(oks, order, key) ==
    IF order \notin DOMAIN oks
    THEN [ordered_keys |-> oks, panicked |-> TRUE]
    ELSE [ordered_keys |-> MapRemove(oks, order),
          panicked |-> key \notin oks[order]]

remove_ordered_key(oks, order, key) ==
    IF order \notin DOMAIN oks
    THEN \* get_mut(&order).unwrap() on None
         [ordered_keys |-> oks, panicked |-> TRUE]
    ELSE LET removed == key \in oks[order]
             keys == oks[order] \ {key}
             oks1 == MapInsert(oks, order, keys)
         IN  IF ~removed
             THEN \* assert!(keys.remove(key))
                  [ordered_keys |-> oks1, panicked |-> TRUE]
             ELSE IF keys = {}
                  THEN \* assert!(self.ordered_keys.remove(&order).is_some())
                       [ordered_keys |-> MapRemove(oks1, order),
                        panicked |-> order \notin DOMAIN oks1]
                  ELSE [ordered_keys |-> oks1, panicked |-> FALSE]

(***************************************************************************)
(* pub fn remove(&mut self, key) -> Option<(O, V)>                         *)
(***************************************************************************)
\* Mutant: the key is taken out of the primary index only.
remove_keep_index(vals, oks, key) ==
    IF key \notin DOMAIN vals
    THEN Result(vals, oks, None)
    ELSE Result(MapRemove(vals, key), oks, Some(vals[key]))

\* Mutant: the entry is read (get) and left in the primary index.
remove_get(vals, oks, key) ==
    IF key \notin DOMAIN vals
    THEN Result(vals, oks, None)
    ELSE LET rok == remove_ordered_key(oks, vals[key][1], key)
         IN  IF rok.panicked
             THEN Panic(vals, rok.ordered_keys)
             ELSE Result(vals, rok.ordered_keys, Some(vals[key]))

\* Mutant: unwrap() in place of `?` on the primary index's answer.
remove_unwrap(vals, oks, key) ==
    IF key \notin DOMAIN vals
    THEN Panic(vals, oks)
    ELSE LET rok == remove_ordered_key(oks, vals[key][1], key)
         IN  IF rok.panicked
             THEN Panic(MapRemove(vals, key), rok.ordered_keys)
             ELSE Result(MapRemove(vals, key), rok.ordered_keys, Some(vals[key]))

remove(vals, oks, key) ==
    IF key \notin DOMAIN vals
    THEN \* self.values.remove(key)? returns None early
         Result(vals, oks, None)
    ELSE LET entry == vals[key]
             vals1 == MapRemove(vals, key)
             rok == remove_ordered_key(oks, entry[1], key)
         IN  IF rok.panicked
             THEN Panic(vals1, rok.ordered_keys)
             ELSE Result(vals1, rok.ordered_keys, Some(entry))

(***************************************************************************)
(* pub fn remove_smallest(&mut self) -> Option<(O, Vec<(K, V)>)>           *)
(***************************************************************************)
\* The loop `for key in keys { values.remove(&key).unwrap(); push }`, over the
\* keys in the order iter in which the HashSet yields them.
RECURSIVE remove_entries_keep(_, _, _)
\* Mutant: the loop reads the entries (get) and leaves them in the primary index.
remove_entries_keep(vals, iter, smallest) ==
    IF iter = <<>>
    THEN [values |-> vals, smallest |-> smallest, panicked |-> FALSE]
    ELSE LET key == Head(iter)
         IN  IF key \notin DOMAIN vals
             THEN [values |-> vals, smallest |-> smallest, panicked |-> TRUE]
             ELSE remove_entries_keep(vals, Tail(iter),
                                      Append(smallest, <<key, vals[key][2]>>))

RECURSIVE remove_entries(_, _, _)
remove_entries(vals, iter, smallest) ==
    IF iter = <<>>
    THEN [values |-> vals, smallest |-> smallest, panicked |-> FALSE]
    ELSE LET key == Head(iter)
         IN  IF key \notin DOMAIN vals
             THEN \* self.values.remove(&key).unwrap() on None
                  [values |-> vals, smallest |-> smallest, panicked |-> TRUE]
             ELSE remove_entries(MapRemove(vals, key), Tail(iter),
                                 Append(smallest, <<key, vals[key][2]>>))

\* Mutant: unwrap() in place of `?` on pop_first's answer.
remove_smallest_unwrap(vals, oks) ==
    LET p == pop_first(oks)
    IN  IF p.popped = None
        THEN {Panic(vals, oks)}
        ELSE {LET r == remove_entries(vals, iter, <<>>)
              IN  IF r.panicked
                  THEN Panic(r.values, p.rest)
                  ELSE Result(r.values, p.rest, Some(<<p.popped[1][1], r.smallest>>))
              : iter \in HashSetIter(p.popped[1][2])}

\* Mutant: only the first key the HashSet yields leaves; the rest of the group stays.
remove_smallest_one_key(vals, oks) ==
    LET f == first_key_value(oks)
    IN  IF f = None
        THEN {Result(vals, oks, None)}
        ELSE {LET rok == remove_ordered_key(oks, f[1][1], Head(iter))
              IN  Result(MapRemove(vals, Head(iter)), rok.ordered_keys,
                         Some(<<f[1][1], <<<<Head(iter), vals[Head(iter)][2]>>>>>>))
              : iter \in HashSetIter(f[1][2])}

\* The set of outcomes of remove_smallest, one per iteration order of the group.
remove_smallest(vals, oks) ==
    LET p == pop_first(oks)
    IN  IF p.popped = None
        THEN {Result(vals, oks, None)}
        ELSE LET order == p.popped[1][1]
                 keys == p.popped[1][2]
             IN  {LET r == remove_entries(vals, iter, <<>>)
                  IN  IF r.panicked
                      THEN Panic(r.values, p.rest)
                      ELSE Result(r.values, p.rest, Some(<<order, r.smallest>>))
                  : iter \in HashSetIter(keys)}

(***************************************************************************)
(* pub fn peek_smallest(&self) -> Option<(&O, Vec<(&K, &V)>)>              *)
(***************************************************************************)
\* The loop `for key in keys { values.get(&key).unwrap(); push }`.
RECURSIVE get_entries(_, _, _)
get_entries(vals, iter, smallest) ==
    IF iter = <<>>
    THEN [smallest |-> smallest, panicked |-> FALSE]
    ELSE LET key == Head(iter)
         IN  IF key \notin DOMAIN vals
             THEN \* self.values.get(&key).unwrap() on None
                  [smallest |-> smallest, panicked |-> TRUE]
             ELSE get_entries(vals, Tail(iter), Append(smallest, <<key, vals[key][2]>>))

\* Mutant: the smallest group is taken out, as remove_smallest does.
peek_smallest_takes(vals, oks) == remove_smallest(vals, oks)

\* The set of outcomes of peek_smallest, one per iteration order of the group.
peek_smallest(vals, oks) ==
    LET f == first_key_value(oks)
    IN  IF f = None
        THEN {Result(vals, oks, None)}
        ELSE LET order == f[1][1]
                 keys == f[1][2]
             IN  {LET r == get_entries(vals, iter, <<>>)
                  IN  IF r.panicked
                      THEN Panic(vals, oks)
                      ELSE Result(vals, oks, Some(<<order, r.smallest>>))
                  : iter \in HashSetIter(keys)}

(***************************************************************************)
(* pub fn add(&mut self, key, order, value) -> Option<(O, V)>              *)
(***************************************************************************)
\* Mutant: the old entry leaves the primary index but stays in its order-group.
detach_old_keep_group(vals, oks, key) ==
    IF key \in DOMAIN vals
    THEN [values |-> MapRemove(vals, key), ordered_keys |-> oks,
          panicked |-> FALSE, old_entry |-> Some(vals[key])]
    ELSE [values |-> vals, ordered_keys |-> oks, panicked |-> FALSE, old_entry |-> None]

\* let old_entry = if let Some(..) = self.values.remove(&key) { .. } else { None };
detach_old(vals, oks, key) ==
    IF key \in DOMAIN vals
    THEN LET rok == remove_ordered_key(oks, vals[key][1], key)
         IN  [values |-> MapRemove(vals, key), ordered_keys |-> rok.ordered_keys,
              panicked |-> rok.panicked, old_entry |-> Some(vals[key])]
    ELSE [values |-> vals, ordered_keys |-> oks, panicked |-> FALSE, old_entry |-> None]

\* Mutant: the entry as it is after the call is returned in place of the old one.
add_returns_new(vals, oks, key, order, value) ==
    LET d == detach_old(vals, oks, key)
        group == IF order \in DOMAIN d.ordered_keys THEN d.ordered_keys[order] ELSE {}
        oks1 == MapInsert(d.ordered_keys, order, group \cup {key})
    IN  IF d.panicked \/ key \in group \/ key \in DOMAIN d.values
        THEN Panic(d.values, oks1)
        ELSE Result(MapInsert(d.values, key, <<order, value>>), oks1,
                    Some(<<order, value>>))

add(vals, oks, key, order, value) ==
    LET d == detach_old(vals, oks, key)
    IN  IF d.panicked
        THEN Panic(d.values, d.ordered_keys)
        ELSE LET group == IF order \in DOMAIN d.ordered_keys
                          THEN d.ordered_keys[order] ELSE {}
                 oks1 == MapInsert(d.ordered_keys, order, group \cup {key})
             IN  IF key \in group
                 THEN \* assert!(ordered_keys.entry(order).or_insert_with(..).insert(key))
                      Panic(d.values, oks1)
                 ELSE IF key \in DOMAIN d.values
                      THEN \* assert!(self.values.insert(key, ..).is_none())
                           Panic(MapInsert(d.values, key, <<order, value>>), oks1)
                      ELSE Result(MapInsert(d.values, key, <<order, value>>), oks1,
                                  d.old_entry)

(***************************************************************************)
(* The abstract container the two indexes implement: one map from key to   *)
(* <<order, value>>, with insert/overwrite, delete, delete-all-with-       *)
(* minimum-order and read-all-with-minimum-order.  A group is a set of     *)
(* (key, value) pairs.                                                     *)
(***************************************************************************)
AbsMin(m) == CHOOSE o \in {m[k][1] : k \in DOMAIN m} : \A k \in DOMAIN m : o <= m[k][1]
AbsMinKeys(m) == {k \in DOMAIN m : m[k][1] = AbsMin(m)}
AbsMinGroup(m) == Some(<<AbsMin(m), {<<k, m[k][2]>> : k \in AbsMinKeys(m)}>>)

AbsInsert(m, key, order, value) ==
    [map |-> [x \in (DOMAIN m) \cup {key} |-> IF x = key THEN <<order, value>> ELSE m[x]],
     ret |-> IF key \in DOMAIN m THEN Some(m[key]) ELSE None,
     ret_smallest |-> None]

AbsDelete(m, key) ==
    [map |-> [x \in (DOMAIN m) \ {key} |-> m[x]],
     ret |-> IF key \in DOMAIN m THEN Some(m[key]) ELSE None,
     ret_smallest |-> None]

AbsDeleteMin(m) ==
    IF DOMAIN m = {}
    THEN [map |-> m, ret |-> None, ret_smallest |-> None]
    ELSE [map |-> [x \in (DOMAIN m) \ AbsMinKeys(m) |-> m[x]],
          ret |-> None, ret_smallest |-> AbsMinGroup(m)]

AbsReadMin(m) ==
    IF DOMAIN m = {}
    THEN [map |-> m, ret |-> None, ret_smallest |-> None]
    ELSE [map |-> m, ret |-> None, ret_smallest |-> AbsMinGroup(m)]

(***************************************************************************)
(* The state machine: Map::new(), then any sequence of public calls, the   *)
(* abstract map taking the same calls.                                     *)
(***************************************************************************)
\* ret holds the Option<(O, V)> of add and remove, ret_smallest the
\* Option<(O, Vec<(K, V)>)> of remove_smallest and peek_smallest.
SmallestOps == {"remove_smallest", "peek_smallest", "peek_remove"}

Call(op, key, order, value, ret) ==
    [op |-> op, key |-> key, order |-> order, value |-> value,
     ret |-> IF op \in SmallestOps THEN None ELSE ret,
     ret_smallest |-> IF op \in SmallestOps THEN ret ELSE None,
     pre_values |-> values, pre_ordered_keys |-> ordered_keys]

\* The container after an operation whose outcome is r.
Do(r) ==
    /\ values' = r.values
    /\ ordered_keys' = r.ordered_keys
    /\ panicked' = r.panicked

\* The state after an operation whose outcome is r, the call kept in last.
Apply(r, op, key, order, value) ==
    /\ Do(r)
    /\ last' = Call(op, key, order, value, r.ret)

\* What last holds when the last call is not kept.
NoCall(op) ==
    [op |-> op, key |-> 0, order |-> 0, value |-> "", ret |-> None,
     ret_smallest |-> None, pre_values |-> EmptyMap, pre_ordered_keys |-> EmptyMap]

\* Map::new(): both indexes empty.
Init ==
    /\ values = EmptyMap
    /\ ordered_keys = EmptyMap
    /\ panicked = FALSE
    /\ last = NoCall("new")
    /\ phase = "free"
    /\ drain_start = EmptyMap
    /\ drain_log = <<>>
    /\ peeked = None
    /\ removed_keys = {}
    /\ again = FALSE
    /\ smallest_orders = <<>>
    /\ abstract = [map |-> EmptyMap, ret |-> None, ret_smallest |-> None]

Add(key, order, value) ==
    /\ ~panicked
    /\ Apply(add(values, ordered_keys, key, order, value), "add", key, order, value)
    /\ abstract' = AbsInsert(abstract.map, key, order, value)
    /\ UNCHANGED scenario_vars

Remove(key) ==
    /\ ~panicked
    /\ Apply(remove(values, ordered_keys, key), "remove", key, 0, "")
    /\ abstract' = AbsDelete(abstract.map, key)
    /\ UNCHANGED scenario_vars

RemoveSmallest ==
    /\ ~panicked
    /\ \E r \in remove_smallest(values, ordered_keys) : Apply(r, "remove_smallest", 0, 0, "")
    /\ abstract' = AbsDeleteMin(abstract.map)
    /\ UNCHANGED scenario_vars

PeekSmallest ==
    /\ ~panicked
    /\ \E r \in peek_smallest(values, ordered_keys) : Apply(r, "peek_smallest", 0, 0, "")
    /\ abstract' = AbsReadMin(abstract.map)
    /\ UNCHANGED scenario_vars

Next ==
    \/ \E key \in Keys, order \in Orders, value \in Values : Add(key, order, value)
    \/ \E key \in Keys : Remove(key)
    \/ RemoveSmallest
    \/ PeekSmallest

Spec == Init /\ [][Next]_vars

(***************************************************************************)
(* The same mutating calls with no history kept: the scenarios below use   *)
(* them to bring the container into any state it can reach, before the     *)
(* calls they are about.                                                   *)
(***************************************************************************)
AnyAdd ==
    /\ ~panicked
    /\ phase = "free"
    /\ \E key \in Keys, order \in Orders, value \in Values :
          Do(add(values, ordered_keys, key, order, value))
    /\ last' = NoCall("any")
    /\ UNCHANGED <<scenario_vars, abstract>>

AnyRemove ==
    /\ ~panicked
    /\ phase = "free"
    /\ \E key \in Keys : Do(remove(values, ordered_keys, key))
    /\ last' = NoCall("any")
    /\ UNCHANGED <<scenario_vars, abstract>>

AnyRemoveSmallest ==
    /\ ~panicked
    /\ phase = "free"
    /\ \E r \in remove_smallest(values, ordered_keys) : Do(r)
    /\ last' = NoCall("any")
    /\ UNCHANGED <<scenario_vars, abstract>>

(***************************************************************************)
(* Vocabulary of the properties.  They are stated over the primary index   *)
(* and the snapshots in last, not through the operators they are about.    *)
(***************************************************************************)
OrderOf(vals, k) == vals[k][1]
ValueOf(vals, k) == vals[k][2]

\* The orders currently held by some entry, and the keys holding order o.
PresentOrders(vals) == {OrderOf(vals, k) : k \in DOMAIN vals}
KeysWithOrder(vals, o) == {k \in DOMAIN vals : OrderOf(vals, k) = o}

\* The order-groups of the secondary index oks that key k is a member of.
GroupsOf(oks, k) == {o \in DOMAIN oks : k \in oks[o]}

\* A Vec as the set of its elements, and whether it holds no element twice.
SetOf(seq) == {seq[i] : i \in 1..Len(seq)}
NoDuplicates(seq) == \A i, j \in 1..Len(seq) : i # j => seq[i] # seq[j]

\* The (key, value) pairs of the entries of vals whose order is o.
PairsWithOrder(vals, o) == {<<k, ValueOf(vals, k)>> : k \in KeysWithOrder(vals, o)}

\* C1: the two indexes agree in both directions: every key of the primary
\* index is a member of the group of the order stored with it, every member of
\* a group of the secondary index is stored in the primary index with that
\* group's order, and so every present key is in exactly one group.
IndexesAgree ==
    /\ \A k \in DOMAIN values :
          /\ OrderOf(values, k) \in DOMAIN ordered_keys
          /\ k \in ordered_keys[OrderOf(values, k)]
    /\ \A o \in DOMAIN ordered_keys : \A k \in ordered_keys[o] :
          /\ k \in DOMAIN values
          /\ OrderOf(values, k) = o
    /\ \A k \in DOMAIN values : Cardinality(GroupsOf(ordered_keys, k)) = 1

\* Reached: a key has just been moved by add from a group that keeps another
\* member to another order, so that several groups coexist.
IndexesAgreeWitness ==
    /\ last.op = "add"
    /\ last.key \in DOMAIN last.pre_values
    /\ OrderOf(last.pre_values, last.key) # last.order
    /\ Cardinality(DOMAIN ordered_keys) >= 2
    /\ Cardinality(DOMAIN values) >= 3

\* C2: no order-group of the secondary index is empty.
NoEmptyGroup == \A o \in DOMAIN ordered_keys : ordered_keys[o] # {}

\* Reached: remove has just taken the only member out of a group, while
\* another group remains.
NoEmptyGroupWitness ==
    /\ last.op = "remove"
    /\ last.key \in DOMAIN last.pre_values
    /\ last.pre_ordered_keys[OrderOf(last.pre_values, last.key)] = {last.key}
    /\ OrderOf(last.pre_values, last.key) \notin DOMAIN ordered_keys
    /\ DOMAIN ordered_keys # {}

\* C3: peek_smallest returns None exactly when no entry is held; otherwise it
\* returns the minimum order among the present entries, with a group that as a
\* set is exactly the (key, value) pairs of the entries of that order, none
\* of them twice.
PeekSmallestCorrect ==
    last.op = "peek_smallest" =>
        /\ (last.ret_smallest = None) <=> (DOMAIN values = {})
        /\ DOMAIN values # {} =>
              /\ Len(last.ret_smallest) = 1
              /\ LET order == last.ret_smallest[1][1]
                     smallest == last.ret_smallest[1][2]
                 IN  /\ order \in PresentOrders(values)
                     /\ \A o \in PresentOrders(values) : order <= o
                     /\ SetOf(smallest) = PairsWithOrder(values, order)
                     /\ NoDuplicates(smallest)

\* Reached: peek_smallest has returned a group of two while an entry of a
\* greater order is present.
PeekSmallestWitness ==
    /\ last.op = "peek_smallest"
    /\ last.ret_smallest # None
    /\ Len(last.ret_smallest[1][2]) = 2
    /\ \E k \in DOMAIN values : OrderOf(values, k) > last.ret_smallest[1][1]

\* C4: add returns the entry the key had right before the call, or None if it
\* had none, and afterwards the key is present with the new (order, value).
AddReturnsOld ==
    last.op = "add" =>
        /\ last.ret = IF last.key \in DOMAIN last.pre_values
                      THEN Some(last.pre_values[last.key]) ELSE None
        /\ last.key \in DOMAIN values
        /\ values[last.key] = <<last.order, last.value>>

\* Reached: add has replaced an entry by one of another order and another value.
AddReturnsOldWitness ==
    /\ last.op = "add"
    /\ last.key \in DOMAIN last.pre_values
    /\ OrderOf(last.pre_values, last.key) # last.order
    /\ ValueOf(last.pre_values, last.key) # last.value
    /\ last.ret = Some(last.pre_values[last.key])

\* C5: replacement: add(k, o2, v2) on a key present with (o1, v1), o2 # o1,
\* returns Some((o1, v1)); afterwards k is no member of the group of o1, that
\* group is gone if k was its only member and otherwise holds its other
\* members, and the only entry for k is (k, o2, v2).
Replacement ==
    (/\ last.op = "add"
     /\ last.key \in DOMAIN last.pre_values
     /\ OrderOf(last.pre_values, last.key) # last.order) =>
        LET k == last.key
            o1 == OrderOf(last.pre_values, k)
            old_group == last.pre_ordered_keys[o1]
        IN  /\ last.ret = Some(last.pre_values[k])
            /\ o1 \in DOMAIN ordered_keys => k \notin ordered_keys[o1]
            /\ old_group = {k} => o1 \notin DOMAIN ordered_keys
            /\ old_group # {k} =>
                  /\ o1 \in DOMAIN ordered_keys
                  /\ ordered_keys[o1] = old_group \ {k}
            /\ values[k] = <<last.order, last.value>>
            /\ GroupsOf(ordered_keys, k) = {last.order}

\* Reached: the replaced key has left a group that keeps another member.
ReplacementWitness ==
    /\ last.op = "add"
    /\ last.key \in DOMAIN last.pre_values
    /\ OrderOf(last.pre_values, last.key) # last.order
    /\ last.pre_ordered_keys[OrderOf(last.pre_values, last.key)] # {last.key}
    /\ OrderOf(last.pre_values, last.key) \in DOMAIN ordered_keys

\* C7: remove(k) on a key present with (o, v) returns Some((o, v)); afterwards
\* k is absent from the primary index and from the group of o, that group is
\* deleted if k was its last member, and every other key keeps its order, its
\* value and its group membership.
RemovePresent ==
    (last.op = "remove" /\ last.key \in DOMAIN last.pre_values) =>
        LET k == last.key
            o == OrderOf(last.pre_values, k)
        IN  /\ last.ret = Some(last.pre_values[k])
            /\ k \notin DOMAIN values
            /\ o \in DOMAIN ordered_keys => k \notin ordered_keys[o]
            /\ last.pre_ordered_keys[o] = {k} => o \notin DOMAIN ordered_keys
            /\ DOMAIN values = (DOMAIN last.pre_values) \ {k}
            /\ \A j \in DOMAIN values : values[j] = last.pre_values[j]
            /\ \A j \in Keys \ {k} :
                  GroupsOf(ordered_keys, j) = GroupsOf(last.pre_ordered_keys, j)

\* Reached: remove has taken a key out of a group that keeps another member,
\* while a third key sits in another group.
RemovePresentWitness ==
    /\ last.op = "remove"
    /\ last.key \in DOMAIN last.pre_values
    /\ last.ret = Some(last.pre_values[last.key])
    /\ last.pre_ordered_keys[OrderOf(last.pre_values, last.key)] # {last.key}
    /\ Cardinality(DOMAIN ordered_keys) >= 2

\* C8: remove(k) on a key that is not present returns None, without a panic,
\* and leaves both indexes as they were.
RemoveAbsent ==
    (last.op = "remove" /\ last.key \notin DOMAIN last.pre_values) =>
        /\ last.ret = None
        /\ ~panicked
        /\ values = last.pre_values
        /\ ordered_keys = last.pre_ordered_keys

\* Reached: remove of an absent key on a container that holds other entries.
RemoveAbsentWitness ==
    /\ last.op = "remove"
    /\ last.key \notin DOMAIN last.pre_values
    /\ Cardinality(DOMAIN values) >= 2

\* C9: on a non-empty container with minimum order m, remove_smallest returns
\* Some((m, G)) with G as a set exactly the (key, value) pairs of the keys of
\* order m; afterwards those keys are absent from the primary index, the group
\* of m is absent from the secondary index, and every entry of a greater order
\* is unchanged in both indexes.
RemoveSmallestCorrect ==
    (last.op = "remove_smallest" /\ DOMAIN last.pre_values # {}) =>
        LET m == MinOrder(PresentOrders(last.pre_values))
        IN  /\ Len(last.ret_smallest) = 1
            /\ last.ret_smallest[1][1] = m
            /\ SetOf(last.ret_smallest[1][2]) = PairsWithOrder(last.pre_values, m)
            /\ NoDuplicates(last.ret_smallest[1][2])
            /\ \A k \in KeysWithOrder(last.pre_values, m) : k \notin DOMAIN values
            /\ m \notin DOMAIN ordered_keys
            /\ DOMAIN values = (DOMAIN last.pre_values) \ KeysWithOrder(last.pre_values, m)
            /\ \A k \in DOMAIN values : values[k] = last.pre_values[k]
            /\ DOMAIN ordered_keys = (DOMAIN last.pre_ordered_keys) \ {m}
            /\ \A o \in DOMAIN ordered_keys : ordered_keys[o] = last.pre_ordered_keys[o]

\* Reached: remove_smallest has returned a group of two and left an entry of
\* a greater order behind.
RemoveSmallestWitness ==
    /\ last.op = "remove_smallest"
    /\ last.ret_smallest # None
    /\ Len(last.ret_smallest[1][2]) = 2
    /\ DOMAIN values # {}

(***************************************************************************)
(* Round trip (tests::it_works, `map.add(8, 1, "e"); map.remove(&8)`): a   *)
(* caller that, from any state the container can reach, calls              *)
(* add(key, order, value) and then remove(key) at once.                    *)
(* last keeps the arguments of the add, the result of the remove and the   *)
(* indexes as they were before the add.                                    *)
(***************************************************************************)
AddThenRemove(key, order, value) ==
    /\ ~panicked
    /\ phase = "free"
    /\ phase' = "tripped"
    /\ LET a == add(values, ordered_keys, key, order, value)
       IN  IF a.panicked
           THEN Apply(a, "add_remove", key, order, value)
           ELSE Apply(remove(a.values, a.ordered_keys, key), "add_remove", key, order, value)
    /\ UNCHANGED <<drain_start, drain_log, history_vars, abstract>>

NextRoundTrip ==
    \/ AnyAdd
    \/ AnyRemove
    \/ AnyRemoveSmallest
    \/ \E key \in Keys, order \in Orders, value \in Values : AddThenRemove(key, order, value)

SpecRoundTrip == Init /\ [][NextRoundTrip]_vars

\* C6 as claimed: for every key, add(k, o, v) followed at once by remove(k)
\* makes remove return Some((o, v)) and leaves both indexes equal to what
\* they were before the add.
RoundTripAnyKey ==
    last.op = "add_remove" =>
        /\ last.ret = Some(<<last.order, last.value>>)
        /\ values = last.pre_values
        /\ ordered_keys = last.pre_ordered_keys

\* C6 as the code has it: remove returns Some((o, v)) for every key; both
\* indexes are back at their pre-add snapshots when k was absent before the
\* add, and when k was present they are the snapshots without k's old entry.
RoundTripAbsentKey ==
    last.op = "add_remove" =>
        /\ last.ret = Some(<<last.order, last.value>>)
        /\ ~panicked
        /\ last.key \notin DOMAIN last.pre_values =>
              /\ values = last.pre_values
              /\ ordered_keys = last.pre_ordered_keys
        /\ last.key \in DOMAIN last.pre_values =>
              /\ values = MapRemove(last.pre_values, last.key)
              /\ last.key \notin DOMAIN values
              /\ \A o \in DOMAIN ordered_keys :
                    /\ o \in DOMAIN last.pre_ordered_keys
                    /\ ordered_keys[o] = last.pre_ordered_keys[o] \ {last.key}
              /\ \A o \in DOMAIN last.pre_ordered_keys :
                    last.pre_ordered_keys[o] # {last.key} => o \in DOMAIN ordered_keys

\* Reached: the round trip on an absent key whose order already has a group,
\* in a container that holds another group too.
RoundTripWitness ==
    /\ last.op = "add_remove"
    /\ last.key \notin DOMAIN last.pre_values
    /\ last.order \in DOMAIN last.pre_ordered_keys
    /\ Cardinality(DOMAIN last.pre_ordered_keys) >= 2
    /\ values = last.pre_values

(***************************************************************************)
(* Drain (tests::it_works, the remove_smallest calls up to the one that    *)
(* returns None): from any state, a caller loop that calls remove_smallest *)
(* and nothing else until it gets None, keeping the Some results.          *)
(***************************************************************************)
StartDrain ==
    /\ ~panicked
    /\ phase = "free"
    /\ phase' = "draining"
    /\ drain_start' = values
    /\ drain_log' = <<>>
    /\ UNCHANGED <<values, ordered_keys, panicked, last, history_vars, abstract>>

DrainCall ==
    /\ ~panicked
    /\ phase = "draining"
    /\ \E r \in remove_smallest(values, ordered_keys) :
          /\ Apply(r, "remove_smallest", 0, 0, "")
          /\ drain_log' = IF r.ret = None THEN drain_log ELSE Append(drain_log, r.ret[1])
          /\ phase' = IF r.ret = None /\ ~r.panicked THEN "drained" ELSE "draining"
    /\ UNCHANGED <<drain_start, history_vars, abstract>>

NextDrain == AnyAdd \/ AnyRemove \/ AnyRemoveSmallest \/ StartDrain \/ DrainCall

\* The loop is sequential code: its next call always comes.
SpecDrain == Init /\ [][NextDrain]_vars /\ WF_vars(DrainCall)

\* The places <<i, j>> of the entries the drain has returned: entry j of result i.
DrainPlaces == {<<i, j>> : i \in 1..Len(drain_log), j \in 1..MaxKey} \cap
    {p \in (1..Len(drain_log)) \X (1..MaxKey) : p[2] <= Len(drain_log[p[1]][2])}

\* The entry <<key, order, value>> returned at a place.
DrainEntry(p) == <<drain_log[p[1]][2][p[2]][1], drain_log[p[1]][1], drain_log[p[1]][2][p[2]][2]>>

\* What holds when the drain loop has received None.
DrainPost ==
    /\ last.op = "remove_smallest" /\ last.ret_smallest = None
    /\ values = EmptyMap /\ ordered_keys = EmptyMap
    /\ {DrainEntry(p) : p \in DrainPlaces} =
          {<<k, OrderOf(drain_start, k), ValueOf(drain_start, k)>> : k \in DOMAIN drain_start}
    /\ Cardinality(DrainPlaces) = Cardinality(DOMAIN drain_start)
    /\ Len(drain_log) <= Cardinality(DOMAIN drain_start)
    /\ \A i \in 1..(Len(drain_log) - 1) : drain_log[i][1] <= drain_log[i + 1][1]

\* C10: drain-to-empty: the loop gets None after finitely many calls; the Some
\* results before it hold every entry that was present exactly once, their
\* orders are non-decreasing from one result to the next, and both indexes
\* are empty at the end.
DrainToEmpty ==
    /\ [](phase = "drained" => DrainPost)
    /\ (phase = "draining") ~> (phase = "drained")

\* Reached: a finished drain that returned several groups, one of them a tie.
DrainToEmptyWitness ==
    /\ phase = "drained"
    /\ Len(drain_log) >= 2
    /\ \E i \in 1..Len(drain_log) : Len(drain_log[i][2]) >= 2

\* C11: no sequence of public calls makes an assert! or unwrap of
\* remove_ordered_key, remove_smallest, peek_smallest or add fail.
NoPanic == ~panicked

\* Reached: an add has moved a key out of a group it was alone in (the unwrap
\* and both asserts of remove_ordered_key have run) into a group that existed
\* (both asserts of add have run).
NoPanicWitness ==
    /\ last.op = "add"
    /\ last.key \in DOMAIN last.pre_values
    /\ OrderOf(last.pre_values, last.key) # last.order
    /\ last.pre_ordered_keys[OrderOf(last.pre_values, last.key)] = {last.key}
    /\ last.order \in DOMAIN last.pre_ordered_keys
    /\ last.key \in DOMAIN values

\* C12: on an empty container remove_smallest returns None and leaves both
\* indexes empty, and peek_smallest returns None.
EmptySmallest ==
    (/\ last.op \in {"remove_smallest", "peek_smallest"}
     /\ last.pre_values = EmptyMap) =>
        /\ last.ret_smallest = None
        /\ ~panicked
        /\ values = EmptyMap
        /\ ordered_keys = EmptyMap

\* Reached: remove_smallest has been called on an empty container.
EmptySmallestWitness ==
    /\ last.op = "remove_smallest"
    /\ last.pre_values = EmptyMap
    /\ last.pre_ordered_keys = EmptyMap
    /\ last.ret_smallest = None

\* The order and the set of pairs of a Some result of the smallest calls.
SmallestOrder(ret) == ret[1][1]
SmallestPairs(ret) == SetOf(ret[1][2])

\* Two results of the smallest calls are both None, or both Some with the
\* same order and the same set of (key, value) pairs.
SameSmallest(r1, r2) ==
    \/ r1 = None /\ r2 = None
    \/ /\ r1 # None /\ r2 # None
       /\ SmallestOrder(r1) = SmallestOrder(r2)
       /\ SmallestPairs(r1) = SmallestPairs(r2)

\* C13: peek_smallest leaves both indexes as they were, and peek_smallest
\* called again right after peek_smallest returns the same order and the same
\* set of (key, value) pairs.
PeekDoesNotMutate ==
    /\ [](last.op = "peek_smallest" =>
             /\ values = last.pre_values
             /\ ordered_keys = last.pre_ordered_keys)
    /\ [][(last.op = "peek_smallest" /\ last'.op = "peek_smallest") =>
             SameSmallest(last.ret_smallest, last'.ret_smallest)]_vars

\* Reached: peek_smallest has returned a group of three, which the HashSet
\* can yield in several orders, from a container it left as it was.
PeekDoesNotMutateWitness ==
    /\ last.op = "peek_smallest"
    /\ last.ret_smallest # None
    /\ Len(last.ret_smallest[1][2]) = MaxKey
    /\ values = last.pre_values
    /\ DOMAIN values # {}

\* C16: add(k, o, v2) on a key present with (o, v1), the same order, returns
\* Some((o, v1)); the secondary index is what it was before the call, and in
\* the primary index only k's value has changed, to v2.
ReAddSameOrder ==
    (/\ last.op = "add"
     /\ last.key \in DOMAIN last.pre_values
     /\ OrderOf(last.pre_values, last.key) = last.order) =>
        /\ last.ret = Some(last.pre_values[last.key])
        /\ ordered_keys = last.pre_ordered_keys
        /\ last.order \in DOMAIN ordered_keys
        /\ last.key \in ordered_keys[last.order]
        /\ DOMAIN values = DOMAIN last.pre_values
        /\ values[last.key] = <<last.order, last.value>>
        /\ \A j \in (DOMAIN values) \ {last.key} : values[j] = last.pre_values[j]

\* Reached: the key re-added with its order and another value was the only
\* member of its group, and another group exists.
ReAddSameOrderWitness ==
    /\ last.op = "add"
    /\ last.key \in DOMAIN last.pre_values
    /\ OrderOf(last.pre_values, last.key) = last.order
    /\ ValueOf(last.pre_values, last.key) # last.value
    /\ last.pre_ordered_keys[last.order] = {last.key}
    /\ Cardinality(DOMAIN ordered_keys) >= 2

\* C17: add(k, o, v) touches only k: every other key is present after the
\* call iff it was before, with the same order and value and in the same
\* group, and only the group of k's old order and the group of o can differ.
AddFrame ==
    last.op = "add" =>
        LET k == last.key
            touched == {last.order} \cup
                       (IF k \in DOMAIN last.pre_values
                        THEN {OrderOf(last.pre_values, k)} ELSE {})
        IN  /\ (DOMAIN values) \ {k} = (DOMAIN last.pre_values) \ {k}
            /\ \A j \in (DOMAIN values) \ {k} : values[j] = last.pre_values[j]
            /\ \A j \in Keys \ {k} :
                  GroupsOf(ordered_keys, j) = GroupsOf(last.pre_ordered_keys, j)
            /\ \A o \in Orders \ touched :
                  /\ o \in DOMAIN ordered_keys <=> o \in DOMAIN last.pre_ordered_keys
                  /\ o \in DOMAIN ordered_keys => ordered_keys[o] = last.pre_ordered_keys[o]

\* Reached: add has moved a key between two groups that both hold another
\* key.
AddFrameWitness ==
    /\ last.op = "add"
    /\ last.key \in DOMAIN last.pre_values
    /\ OrderOf(last.pre_values, last.key) # last.order
    /\ last.pre_ordered_keys[OrderOf(last.pre_values, last.key)] # {last.key}
    /\ last.order \in DOMAIN last.pre_ordered_keys
    /\ Cardinality(DOMAIN values) = MaxKey

\* The secondary index derived from a map m: each order some entry holds,
\* with the keys that hold it.
DerivedIndex(m) == [o \in PresentOrders(m) |-> KeysWithOrder(m, o)]

\* C18: run side by side over the same calls, the primary index equals the
\* abstract map, the secondary index equals the index derived from it, and
\* every call returns what the abstract operation returns, a group compared
\* as a set.
Refinement ==
    /\ ~panicked
    /\ values = abstract.map
    /\ ordered_keys = DerivedIndex(abstract.map)
    /\ last.ret = abstract.ret
    /\ (last.ret_smallest = None) <=> (abstract.ret_smallest = None)
    /\ last.ret_smallest # None =>
          /\ SmallestOrder(last.ret_smallest) = abstract.ret_smallest[1][1]
          /\ SmallestPairs(last.ret_smallest) = abstract.ret_smallest[1][2]
          /\ NoDuplicates(last.ret_smallest[1][2])

\* Reached: remove_smallest and the abstract delete-all-with-minimum-order
\* have both returned a group of two and left an entry behind.
RefinementWitness ==
    /\ last.op = "remove_smallest"
    /\ abstract.ret_smallest # None
    /\ Cardinality(abstract.ret_smallest[1][2]) = 2
    /\ DOMAIN abstract.map # {}
    /\ values = abstract.map

(***************************************************************************)
(* Peek then remove (tests::it_works, peek_smallest followed by            *)
(* remove_smallest): a caller that, from any state the container can       *)
(* reach, calls peek_smallest and then remove_smallest at once.  peeked    *)
(* keeps the result of the first call, last that of the second.            *)
(***************************************************************************)
PeekThenRemoveSmallest ==
    /\ ~panicked
    /\ phase = "free"
    /\ phase' = "peeked"
    /\ \E p \in peek_smallest(values, ordered_keys) :
          IF p.panicked
          THEN Apply(p, "peek_remove", 0, 0, "") /\ peeked' = None
          ELSE /\ peeked' = p.ret
               /\ \E r \in remove_smallest(p.values, p.ordered_keys) :
                     Apply(r, "peek_remove", 0, 0, "")
    /\ UNCHANGED <<drain_start, drain_log, removed_keys, again, smallest_orders, abstract>>

NextPeekRemove == AnyAdd \/ AnyRemove \/ AnyRemoveSmallest \/ PeekThenRemoveSmallest

SpecPeekRemove == Init /\ [][NextPeekRemove]_vars

\* C14: peek_smallest and a remove_smallest called right after it return both
\* None, or both Some with equal orders and groups equal as sets of pairs.
SameTarget ==
    last.op = "peek_remove" =>
        /\ ~panicked
        /\ SameSmallest(peeked, last.ret_smallest)
        /\ (peeked = None) <=> (last.pre_values = EmptyMap)

\* Reached: both calls have returned a group of two, yielded in different
\* orders, and an entry of a greater order is left.
SameTargetWitness ==
    /\ last.op = "peek_remove"
    /\ peeked # None
    /\ Len(peeked[1][2]) = 2
    /\ peeked[1][2] # last.ret_smallest[1][2]
    /\ DOMAIN values # {}

(***************************************************************************)
(* Repeated remove (tests::it_works, `map.remove(&8)` twice): any calls,   *)
(* with the keys that remove has returned Some for, and that no add has    *)
(* brought back since, kept in removed_keys.  Only remove is kept in last. *)
(***************************************************************************)
TrackedAdd ==
    /\ ~panicked
    /\ \E key \in Keys, order \in Orders, value \in Values :
          /\ Do(add(values, ordered_keys, key, order, value))
          /\ removed_keys' = removed_keys \ {key}
    /\ last' = NoCall("any")
    /\ again' = FALSE
    /\ UNCHANGED <<drain_vars, peeked, smallest_orders, abstract>>

TrackedRemoveSmallest ==
    /\ ~panicked
    /\ \E r \in remove_smallest(values, ordered_keys) : Do(r)
    /\ last' = NoCall("any")
    /\ again' = FALSE
    /\ UNCHANGED <<drain_vars, peeked, removed_keys, smallest_orders, abstract>>

TrackedRemove ==
    /\ ~panicked
    /\ \E key \in Keys :
          LET r == remove(values, ordered_keys, key)
          IN  /\ Apply(r, "remove", key, 0, "")
              /\ again' = (key \in removed_keys)
              /\ removed_keys' = IF r.ret # None THEN removed_keys \cup {key}
                                 ELSE removed_keys
    /\ UNCHANGED <<drain_vars, peeked, smallest_orders, abstract>>

NextRemoved == TrackedAdd \/ TrackedRemoveSmallest \/ TrackedRemove

SpecRemoved == Init /\ [][NextRemoved]_vars

\* C15: once remove(k) has returned Some, every later remove(k) returns None
\* as long as no add(k, ..) has been called in between, whatever add, remove
\* and remove_smallest calls were made on other keys.
RemoveStaysAbsent ==
    again =>
        /\ last.op = "remove"
        /\ last.ret = None
        /\ ~panicked

\* Reached: remove(k) is called again after it returned Some, on a container
\* that holds other entries and has had another key removed too.
RemoveStaysAbsentWitness ==
    /\ again
    /\ last.op = "remove"
    /\ DOMAIN values # {}
    /\ Cardinality(removed_keys) >= 2

(***************************************************************************)
(* Successive remove_smallest (tests::it_works, the two remove_smallest    *)
(* calls that return Some): any calls, with the orders remove_smallest has *)
(* returned since the last add kept in smallest_orders.  Only              *)
(* remove_smallest is kept in last.                                        *)
(***************************************************************************)
TiesAdd ==
    /\ ~panicked
    /\ \E key \in Keys, order \in Orders, value \in Values :
          Do(add(values, ordered_keys, key, order, value))
    /\ last' = NoCall("any")
    /\ smallest_orders' = <<>>
    /\ UNCHANGED <<drain_vars, peeked, removed_keys, again, abstract>>

TiesRemove ==
    /\ ~panicked
    /\ \E key \in Keys : Do(remove(values, ordered_keys, key))
    /\ last' = NoCall("any")
    /\ UNCHANGED <<drain_vars, history_vars, abstract>>

TiesRemoveSmallest ==
    /\ ~panicked
    /\ \E r \in remove_smallest(values, ordered_keys) :
          /\ Apply(r, "remove_smallest", 0, 0, "")
          /\ smallest_orders' = IF r.ret # None
                                THEN Append(smallest_orders, r.ret[1][1])
                                ELSE smallest_orders
    /\ UNCHANGED <<drain_vars, peeked, removed_keys, again, abstract>>

NextTies == TiesAdd \/ TiesRemove \/ TiesRemoveSmallest

SpecTies == Init /\ [][NextTies]_vars

\* C19: all ties leave together: of two remove_smallest calls that return
\* Some with no add between them, the later returns a strictly greater order;
\* and right after remove_smallest has returned Some((m, _)) no present entry
\* has an order less than or equal to m.
TiesLeaveTogether ==
    /\ \A i, j \in 1..Len(smallest_orders) :
          i < j => smallest_orders[i] < smallest_orders[j]
    /\ (last.op = "remove_smallest" /\ last.ret_smallest # None) =>
          \A k \in DOMAIN values : OrderOf(values, k) > SmallestOrder(last.ret_smallest)

\* Reached: two remove_smallest calls have returned Some with no add between
\* them, the second one taking the last entry of the container.
TiesLeaveTogetherWitness ==
    /\ Len(smallest_orders) = 2
    /\ last.op = "remove_smallest"
    /\ last.ret_smallest # None
    /\ Cardinality(DOMAIN last.pre_values) = 1
    /\ Cardinality(DOMAIN values) = 0

====
